---- MODULE Spec2Model ----
(***************************************************************************)
(* A model of the group_32 dataframe optimisers:                           *)
(*   optimize_numeric, optimize_categorical, optimize_special and the      *)
(*   wrapper optimize_dataframe.                                           *)
(*                                                                         *)
(* A dataset is a record: whether it is a pandas DataFrame at all, its row *)
(* count and its ordered columns. A column has a name (a sequence of       *)
(* characters), a dtype tag and one cell per row. Objects live in a heap   *)
(* (a sequence of datasets addressed by position) so that df.copy() and    *)
(* aliasing are distinguishable: heap[1] is the object the caller passed.  *)
(***************************************************************************)
EXTENDS Integers, Sequences, FiniteSets, TLC

VARIABLES
    heap,               \* the dataset objects alive; heap[1] is the caller's argument
    df_before,          \* the caller's snapshot of its argument, taken before the call
    call,               \* the top-level call: [op, t, verbose], its number n and the
                        \* dataset `first` the first call was made on
    wpc,                \* position inside optimize_dataframe, "none" when it is not running
    wout,               \* optimize_dataframe's local `out` (a heap address, 0 = unbound)
    fn,                 \* the helper that is running, "none" when none is
    pc,                 \* position inside the running helper / "idle" / "done"
    arg,                \* the running helper's parameter `df` (heap address)
    loc,                \* the running helper's local copy: df_copy / out (heap address)
    thr,                \* the running optimize_categorical's max_unique_ratio
    verbose,            \* the running optimize_numeric's verbose flag
    cols,               \* the column positions the running loop iterates over
    i,                  \* the loop's position in cols
    converted_columns,  \* optimize_categorical's counter
    stdout,             \* the lines printed so far
    ret,                \* what the top-level call returned: [kind, id]
    err,                \* the message of the TypeError the top-level call raised, or ""
    trace               \* the calls and copies made so far, in order

vars == <<heap, df_before, call, wpc, wout, fn, pc, arg, loc, thr, verbose,
          cols, i, converted_columns, stdout, ret, err, trace>>

----------------------------------------------------------------------------
(* Bounds of the explored inputs. *)

MaxRows == 2      \* rows of the datasets handed to optimize_categorical
MaxCols == 3      \* columns of the datasets handed to optimize_categorical
MaxMixedCols == 2 \* columns of the datasets of mixed column types
MaxNumCols == 2   \* columns of the datasets handed to optimize_numeric alone
MaxSpCols == 2    \* columns of the ten-row datasets handed to optimize_special

----------------------------------------------------------------------------
(* Cells. A cell is [k, v, w]: k the kind of value, v its payload.          *)
(*   "none"  the missing marker (None / NaN in an object column)            *)
(*   "str"   a string, v its index in the pool of strings                   *)
(*   "int"   an integer, value w * 65536 + v                                *)
(*   "float" a finite float, v in hundredths; w = 32 when the value is the  *)
(*           float32 nearest to v / 100 and differs from it                 *)
(*   "huge"  a finite float64 beyond the float32 range (1e300)              *)
(*   "nan", "inf", "ninf"  the float specials                               *)
(*   "bool", "time"  a boolean / a timestamp                                *)
(*   "wrapped"  a negative integer w * 65536 + v reinterpreted as unsigned  *)
(*           64-bit (2^64 more)                                             *)

Missing == [k |-> "none", v |-> 0, w |-> 0]
StrCell(s) == [k |-> "str", v |-> s, w |-> 0]
IntCell(n) == [k |-> "int", v |-> n % 65536, w |-> n \div 65536]
FloatCell(h) == [k |-> "float", v |-> h, w |-> 0]
NaNCell == [k |-> "nan", v |-> 0, w |-> 0]
InfCell == [k |-> "inf", v |-> 0, w |-> 0]
NegInfCell == [k |-> "ninf", v |-> 0, w |-> 0]
HugeCell == [k |-> "huge", v |-> 0, w |-> 0]
BoolCell(b) == [k |-> "bool", v |-> b, w |-> 0]
TimeCell(t) == [k |-> "time", v |-> t, w |-> 0]

(* The integer hi * 65536 + lo, for values beyond the 32-bit range. *)
WideInt(hi, lo) == [k |-> "int", v |-> lo, w |-> hi]

IsNull(c) == c.k \in {"none", "nan"}

(* Column names are sequences of characters. *)
ColNames ==
    << <<"n","a","m","e">>, <<"c","i","t","y">>, <<"s","t","a","t","u","s">>,
       <<"b","r","a","n","d">>, <<"s","c","o","r","e">> >>

(* Names that are a coordinate name or match the identifier pattern only   *)
(* after trimming and lower-casing.                                        *)
AltNames ==
    << <<" ","L","a","t"," ">>, <<"U","s","e","r","_","I","D">>, <<"k","e","y">>,
       <<"u","s","e","r","i","d">>, <<"l","o","n","g">> >>

NameLists == {ColNames, AltNames}

Column(name, dtype, vals) == [name |-> name, dtype |-> dtype, vals |-> vals]

DataFrame(n, columns) == [isdf |-> TRUE, nrows |-> n, cols |-> columns]

(* What a caller may pass instead of a DataFrame: a list, a string, None. *)
NotADataFrame == [isdf |-> FALSE, nrows |-> 0, cols |-> <<>>]

(* All sequences of length n over S. *)
SeqsOfLen(S, n) == [1..n -> S]

----------------------------------------------------------------------------
(* pandas primitives used by the code. *)

(* Mutant of AllNull: isnull().any() in place of isnull().all(). *)
AnyNull(col) == \E r \in DOMAIN col.vals : IsNull(col.vals[r])

(* Series.isnull().all(): vacuously true for a zero-row column. *)
AllNull(col) == \A r \in DOMAIN col.vals : IsNull(col.vals[r])

(* Series.nunique(dropna=False): distinct values, all missing cells counting *)
(* as one.                                                                   *)
NUnique(col) ==
    Cardinality({col.vals[r] : r \in {x \in DOMAIN col.vals : ~IsNull(col.vals[x])}})
    + (IF \E r \in DOMAIN col.vals : IsNull(col.vals[r]) THEN 1 ELSE 0)

(* select_dtypes(include=[...]).columns: the positions, in column order, of *)
(* the columns whose dtype is in the set.                                    *)
RECURSIVE SelectFrom(_, _, _)
SelectFrom(d, dtypes, from) ==
    IF from > Len(d.cols) THEN <<>>
    ELSE (IF d.cols[from].dtype \in dtypes THEN <<from>> ELSE <<>>)
         \o SelectFrom(d, dtypes, from + 1)

SelectDtypes(d, dtypes) == SelectFrom(d, dtypes, 1)

(* Series.astype("category"): same values, categorical dtype. *)
AsCategory(col) == [col EXCEPT !.dtype = "category"]

(* df[c] = series: replace column c of the dataset. *)
SetColumn(d, c, col) == [d EXCEPT !.cols[c] = col]

----------------------------------------------------------------------------
(* Control: raising, returning, printing, logging. *)

NoReturn == [kind |-> "unset", id |-> 0]

Event(ev, who, x, y) == [ev |-> ev, who |-> who, x |-> x, y |-> y]

Line(tag, name, n) == [tag |-> tag, name |-> name, n |-> n]

(* What a call event records besides the dataset: the threshold (in       *)
(* hundredths) of optimize_categorical, the verbose flag of                *)
(* optimize_numeric.                                                       *)
CallArg(f, t, v) ==
    CASE f = "optimize_categorical" -> t.v
      [] f = "optimize_numeric" -> IF v THEN 1 ELSE 0
      [] OTHER -> 0

(* raise TypeError(msg): no helper and no wrapper catches it, so the       *)
(* top-level call ends with the error and returns nothing.                 *)
Raise(msg) ==
    /\ err' = msg
    /\ pc' = "done"
    /\ fn' = "none"
    /\ wpc' = "none"
    /\ UNCHANGED <<ret, wout>>

(* Mutant of AfterHelper: the reporter runs before the converter. *)
AfterHelperSpecialFirst(w) ==
    CASE w = "in_numeric" -> "special"
      [] w = "in_special" -> "categorical"
      [] w = "in_categorical" -> "return"
      [] OTHER -> w

(* What optimize_dataframe does next once the helper it called returns. *)
AfterHelper(w) ==
    CASE w = "in_numeric" -> "categorical"
      [] w = "in_categorical" -> "special"
      [] w = "in_special" -> "return"
      [] OTHER -> w

(* return of a helper: to the user when the helper was called directly,    *)
(* else into optimize_dataframe, which rebinds `out` to the result of      *)
(* optimize_numeric / optimize_categorical and drops optimize_special's.   *)
Return(kind, id, tr) ==
    /\ err' = err
    /\ fn' = "none"
    /\ trace' = Append(tr, Event("return", fn, id, 0))
    /\ IF wpc = "none"
          THEN /\ ret' = [kind |-> kind, id |-> id]
               /\ pc' = "done"
               /\ UNCHANGED <<wpc, wout>>
          ELSE /\ ret' = ret
               /\ pc' = "wrapper"
               /\ wpc' = AfterHelper(wpc)
               /\ wout' = IF wpc \in {"in_numeric", "in_categorical"} THEN id ELSE wout

----------------------------------------------------------------------------
(* optimize_categorical(df, max_unique_ratio) *)

(* A threshold argument: a number (v in hundredths), NaN, or not a number  *)
(* at all (a string such as "30%").                                        *)
Threshold(kind, v) == [kind |-> kind, v |-> v]

(* isinstance(max_unique_ratio, (int, float)): NaN is a float. *)
IsIntOrFloat(t) == t.kind \in {"num", "nan"}

(* Mutant of RatioAtMost: ratio < max_unique_ratio. *)
RatioBelow(n_unique, n_rows, t) == n_unique * 100 < t.v * n_rows

(* Mutant of RatioAtMost: floor division, ratio = n_unique // n_rows. *)
RatioFloorDiv(n_unique, n_rows, t) == (n_unique \div n_rows) * 100 <= t.v

(* ratio = n_unique / n_rows; ratio <= max_unique_ratio, for a threshold   *)
(* of t.v hundredths.                                                      *)
RatioAtMost(n_unique, n_rows, t) == n_unique * 100 <= t.v * n_rows

(* Mutant of CatCheckDf: a zero-row DataFrame is copied and returned       *)
(* before the threshold is looked at.                                      *)
CatCheckDfEmptyFirst ==
    /\ fn = "optimize_categorical" /\ pc = "check_df"
    /\ IF ~heap[arg].isdf
          THEN Raise("df must be a pandas DataFrame")
          ELSE /\ pc' = IF heap[arg].nrows = 0 THEN "copy" ELSE "check_number"
               /\ UNCHANGED <<err, ret, fn, wpc, wout>>
    /\ UNCHANGED <<heap, df_before, call, arg, loc, thr, verbose, cols, i,
                   converted_columns, stdout, trace>>

(* lines 73-74 *)
CatCheckDf ==
    /\ fn = "optimize_categorical" /\ pc = "check_df"
    /\ IF ~heap[arg].isdf
          THEN Raise("df must be a pandas DataFrame")
          ELSE /\ pc' = "check_number"
               /\ UNCHANGED <<err, ret, fn, wpc, wout>>
    /\ UNCHANGED <<heap, df_before, call, arg, loc, thr, verbose, cols, i,
                   converted_columns, stdout, trace>>

(* Mutant of CatCheckNumber: the NaN test is missing. *)
CatCheckNumberNoNaN ==
    /\ fn = "optimize_categorical" /\ pc = "check_number"
    /\ IF ~IsIntOrFloat(thr)
          THEN Raise("max_unique_ratio must be a number")
          ELSE /\ pc' = "check_range"
               /\ UNCHANGED <<err, ret, fn, wpc, wout>>
    /\ UNCHANGED <<heap, df_before, call, arg, loc, thr, verbose, cols, i,
                   converted_columns, stdout, trace>>

(* lines 77-78 *)
CatCheckNumber ==
    /\ fn = "optimize_categorical" /\ pc = "check_number"
    /\ IF ~IsIntOrFloat(thr) \/ thr.kind = "nan"
          THEN Raise("max_unique_ratio must be a number")
          ELSE /\ pc' = "check_range"
               /\ UNCHANGED <<err, ret, fn, wpc, wout>>
    /\ UNCHANGED <<heap, df_before, call, arg, loc, thr, verbose, cols, i,
                   converted_columns, stdout, trace>>

(* lines 81-82 *)
CatCheckRange ==
    /\ fn = "optimize_categorical" /\ pc = "check_range"
    /\ IF thr.v < 0 \/ thr.v > 100
          THEN Raise("max_unique_ratio must be between 0 and 1 (inclusive)!")
          ELSE /\ pc' = "copy"
               /\ UNCHANGED <<err, ret, fn, wpc, wout>>
    /\ UNCHANGED <<heap, df_before, call, arg, loc, thr, verbose, cols, i,
                   converted_columns, stdout, trace>>

(* Mutant of CatCopy: df_copy = df, the same object, in place of a copy.   *)
CatNoCopy ==
    /\ fn = "optimize_categorical" /\ pc = "copy"
    /\ loc' = arg
    /\ IF heap[arg].nrows = 0
          THEN /\ Return("df", arg, trace)
               /\ UNCHANGED <<cols, i, converted_columns>>
          ELSE /\ trace' = trace
               /\ converted_columns' = 0
               /\ cols' = SelectDtypes(heap[arg], {"object"})
               /\ i' = 1
               /\ pc' = "loop"
               /\ UNCHANGED <<err, ret, fn, wpc, wout>>
    /\ UNCHANGED <<heap, df_before, call, arg, thr, verbose, stdout>>

(* Mutant of CatCopy: a zero-row dataset is answered with a fresh          *)
(* pd.DataFrame(), which has no columns.                                   *)
CatCopyEmptyFresh ==
    /\ fn = "optimize_categorical" /\ pc = "copy"
    /\ loc' = Len(heap) + 1
    /\ IF heap[arg].nrows = 0
          THEN /\ heap' = Append(heap, DataFrame(0, <<>>))
               /\ Return("df", Len(heap) + 1, Append(trace, Event("copy", fn, arg, 0)))
               /\ UNCHANGED <<cols, i, converted_columns>>
          ELSE /\ heap' = Append(heap, heap[arg])
               /\ trace' = Append(trace, Event("copy", fn, arg, 0))
               /\ converted_columns' = 0
               /\ cols' = SelectDtypes(heap[arg], {"object"})
               /\ i' = 1
               /\ pc' = "loop"
               /\ UNCHANGED <<err, ret, fn, wpc, wout>>
    /\ UNCHANGED <<df_before, call, arg, thr, verbose, stdout>>

(* lines 84-93: df_copy = df.copy(); a zero-row dataset is returned at     *)
(* once; otherwise the counter is reset and the object columns selected.   *)
CatCopy ==
    /\ fn = "optimize_categorical" /\ pc = "copy"
    /\ heap' = Append(heap, heap[arg])
    /\ loc' = Len(heap) + 1
    /\ IF heap[arg].nrows = 0
          THEN /\ Return("df", Len(heap) + 1, Append(trace, Event("copy", fn, arg, 0)))
               /\ UNCHANGED <<cols, i, converted_columns>>
          ELSE /\ trace' = Append(trace, Event("copy", fn, arg, 0))
               /\ converted_columns' = 0
               /\ cols' = SelectDtypes(heap[arg], {"object"})
               /\ i' = 1
               /\ pc' = "loop"
               /\ UNCHANGED <<err, ret, fn, wpc, wout>>
    /\ UNCHANGED <<df_before, call, arg, thr, verbose, stdout>>

(* Mutant of CatLoop: an all-null column is skipped (continue) instead of  *)
(* ending the loop (break).                                                *)
CatLoopContinue ==
    /\ fn = "optimize_categorical" /\ pc = "loop"
    /\ IF i > Len(cols)
          THEN /\ pc' = "report"
               /\ UNCHANGED <<heap, i, converted_columns, trace>>
          ELSE LET col == cols[i]
                   n_col == heap[loc].cols[col]
                   n_rows == heap[loc].nrows
               IN  /\ trace' = Append(trace, Event("examine", fn, col, 0))
                   /\ pc' = "loop"
                   /\ i' = i + 1
                   /\ IF ~AllNull(n_col) /\ RatioAtMost(NUnique(n_col), n_rows, thr)
                         THEN /\ heap' = [heap EXCEPT ![loc] =
                                     SetColumn(heap[loc], col, AsCategory(n_col))]
                              /\ converted_columns' = converted_columns + 1
                         ELSE UNCHANGED <<heap, converted_columns>>
    /\ UNCHANGED <<df_before, call, arg, loc, thr, verbose, cols, stdout,
                   err, ret, fn, wpc, wout>>

(* lines 93-104: one iteration of the loop over the object columns, or     *)
(* its end. An all-null column breaks out of the loop.                     *)
CatLoop ==
    /\ fn = "optimize_categorical" /\ pc = "loop"
    /\ IF i > Len(cols)
          THEN /\ pc' = "report"
               /\ UNCHANGED <<heap, i, converted_columns, trace>>
          ELSE LET col == cols[i]
                   n_col == heap[loc].cols[col]
                   n_rows == heap[loc].nrows
               IN  /\ trace' = Append(trace, Event("examine", fn, col, 0))
                   /\ IF AllNull(n_col)
                         THEN /\ pc' = "report"
                              /\ UNCHANGED <<heap, i, converted_columns>>
                         ELSE /\ pc' = "loop"
                              /\ i' = i + 1
                              /\ IF RatioAtMost(NUnique(n_col), n_rows, thr)
                                    THEN /\ heap' = [heap EXCEPT ![loc] =
                                                SetColumn(heap[loc], col, AsCategory(n_col))]
                                         /\ converted_columns' = converted_columns + 1
                                    ELSE UNCHANGED <<heap, converted_columns>>
    /\ UNCHANGED <<df_before, call, arg, loc, thr, verbose, cols, stdout,
                   err, ret, fn, wpc, wout>>

(* Mutant of CatReport: the count line is printed whatever the count. *)
CatReportAlways ==
    /\ fn = "optimize_categorical" /\ pc = "report"
    /\ stdout' = Append(stdout, Line("converted", <<>>, converted_columns))
    /\ Return("df", loc, trace)
    /\ UNCHANGED <<heap, df_before, call, arg, loc, thr, verbose, cols, i,
                   converted_columns>>

(* lines 106-109 *)
CatReport ==
    /\ fn = "optimize_categorical" /\ pc = "report"
    /\ stdout' = IF converted_columns > 0
                    THEN Append(stdout, Line("converted", <<>>, converted_columns))
                    ELSE stdout
    /\ Return("df", loc, trace)
    /\ UNCHANGED <<heap, df_before, call, arg, loc, thr, verbose, cols, i,
                   converted_columns>>

OptimizeCategorical ==
    CatCheckDf \/ CatCheckNumber \/ CatCheckRange \/ CatCopy \/ CatLoop \/ CatReport

----------------------------------------------------------------------------
(* optimize_numeric(df, verbose) *)

(* The numpy dtypes select_dtypes(include=['int', 'uint', 'float']) keeps:  *)
(* pandas reads 'int' as int32 and int64, 'float' as float64 and float32,   *)
(* and 'uint' as numpy's uint, which is uint64.                             *)
NumericDtypes == {"int32", "int64", "uint64", "float32", "float64"}

(* dtype.kind and dtype.itemsize *)
Kind(dtype) ==
    CASE dtype \in {"int8", "int16", "int32", "int64"} -> "i"
      [] dtype \in {"uint8", "uint16", "uint32", "uint64"} -> "u"
      [] dtype \in {"float16", "float32", "float64"} -> "f"
      [] dtype = "bool" -> "b"
      [] dtype = "datetime64" -> "M"
      [] OTHER -> "O"

ItemSize(dtype) ==
    CASE dtype \in {"int8", "uint8", "bool"} -> 1
      [] dtype \in {"int16", "uint16", "float16"} -> 2
      [] dtype \in {"int32", "uint32", "float32"} -> 4
      [] OTHER -> 8

(* numpy's astype(dtype) on one integer cell: the low bits of the value,   *)
(* read as signed or unsigned (wrap-around, no error).                     *)
AstypeCell(c, dtype) ==
    CASE dtype = "int8" ->
           LET b == c.v % 256 IN IntCell(IF b < 128 THEN b ELSE b - 256)
      [] dtype = "int16" -> IntCell(IF c.v < 32768 THEN c.v ELSE c.v - 65536)
      [] dtype = "int32" -> WideInt(((c.w + 32768) % 65536) - 32768, c.v)
      [] dtype = "uint8" -> IntCell(c.v % 256)
      [] dtype = "uint16" -> IntCell(c.v)
      [] dtype = "uint32" -> WideInt(c.w % 65536, c.v)
      [] dtype = "uint64" -> IF c.w < 0 THEN [c EXCEPT !.k = "wrapped"] ELSE c
      [] OTHER -> c

(* Series.astype(dtype) for an integer dtype. *)
Astype(col, dtype) ==
    [col EXCEPT !.dtype = dtype,
                !.vals = [r \in DOMAIN col.vals |-> AstypeCell(col.vals[r], dtype)]]

(* np.allclose(new, old, rtol=0) on integer columns: equal row by row. *)
AllCloseInt(new, old) == \A r \in DOMAIN old.vals : new.vals[r] = old.vals[r]

(* np.typecodes["Integer"], smallest first. *)
SignedDtypes == <<"int8", "int16", "int32", "int64">>

(* Mutant of DowncastIntegerFrom: the cast is kept without comparing the   *)
(* cast values with the original ones.                                     *)
RECURSIVE DowncastIntegerUnchecked(_, _)
DowncastIntegerUnchecked(col, j) ==
    IF j > Len(SignedDtypes) THEN col
    ELSE LET dtype == SignedDtypes[j]
         IN  IF ItemSize(dtype) > ItemSize(col.dtype)
               THEN DowncastIntegerUnchecked(col, j + 1)
             ELSE Astype(col, dtype)

(* Mutant of DowncastIntegerFrom: only the signed dtype of half the        *)
(* column's width is tried.                                                *)
DowncastIntegerOneStep(col, j) ==
    LET half == CASE ItemSize(col.dtype) = 8 -> "int32"
                  [] ItemSize(col.dtype) = 4 -> "int16"
                  [] OTHER -> "int8"
    IN  IF AllCloseInt(Astype(col, half), col) THEN Astype(col, half) ELSE col

(* pd.to_numeric(series, downcast='integer'): the candidates are the       *)
(* signed dtypes no wider than the column's, smallest first; a candidate   *)
(* of the column's own kind that is not narrower ends the search (unless   *)
(* the column is empty); an empty column is cast to the first candidate;   *)
(* otherwise the column is cast and the cast is kept when every value is   *)
(* unchanged by it. A column that fits no candidate is kept as it is.      *)
RECURSIVE DowncastIntegerFrom(_, _)
DowncastIntegerFrom(col, j) ==
    IF j > Len(SignedDtypes) THEN col
    ELSE LET dtype == SignedDtypes[j]
         IN  IF ItemSize(dtype) > ItemSize(col.dtype)
               THEN DowncastIntegerFrom(col, j + 1)
             ELSE IF Kind(dtype) = Kind(col.dtype) /\ ItemSize(col.dtype) <= ItemSize(dtype)
                        /\ Len(col.vals) > 0
               THEN col
             ELSE IF AllCloseInt(Astype(col, dtype), col)
               THEN Astype(col, dtype)
             ELSE DowncastIntegerFrom(col, j + 1)

DowncastInteger(col) == DowncastIntegerFrom(col, 1)

(* 2^k *)
RECURSIVE Pow2(_)
Pow2(k) == IF k = 0 THEN 1 ELSE 2 * Pow2(k - 1)

(* The binary exponent of a >= 1: the e with 2^e <= a < 2^(e+1). *)
RECURSIVE Log2(_)
Log2(a) == IF a < 2 THEN 0 ELSE 1 + Log2(a \div 2)

Abs(x) == IF x < 0 THEN -x ELSE x

(* Mutant of Float32Close: the cast must be exact (no tolerance). A finite *)
(* x = h / 100 below 2^14 is a float32 when it is a multiple of 1/4.       *)
Float32Exact(c) ==
    CASE c.k \in {"nan", "inf", "ninf"} -> TRUE
      [] c.k = "huge" -> FALSE
      [] OTHER -> Abs(c.v) < 1638400 /\ c.v % 25 = 0

(* np.allclose(float32(x), x, equal_nan=True, rtol=0, atol=5e-4) for one   *)
(* cell: NaN and the infinities survive the cast; a finite x = h / 100     *)
(* with |x| < 2^14 is rounded by at most 2^-11 < 5e-4; a larger one lies   *)
(* between two float32 neighbours 2^-k apart, k = 23 - exponent, and is    *)
(* close iff its distance to the nearer one is <= 5e-4; a finite value     *)
(* beyond the float32 range becomes infinite.                              *)
Float32Close(c) ==
    CASE c.k \in {"nan", "inf", "ninf"} -> TRUE
      [] c.k = "huge" -> FALSE
      [] OTHER ->
           LET a == Abs(c.v)
           IN  IF a < 1638400 THEN TRUE
               ELSE LET k == 23 - Log2(a \div 100)
                        r == (a * Pow2(k)) % 100
                        d == IF r <= 50 THEN r ELSE 100 - r
                    IN  d * 20 <= Pow2(k)

(* astype(float32) on one float cell: NaN and the infinities are kept, a   *)
(* finite value beyond the float32 range becomes infinite, any other       *)
(* value becomes the nearest float32.                                      *)
AsFloat32(c) ==
    CASE c.k \in {"nan", "inf", "ninf"} -> c
      [] c.k = "huge" -> InfCell
      [] OTHER -> IF Abs(c.v) < 1638400 /\ c.v % 25 = 0 THEN c ELSE [c EXCEPT !.w = 32]

(* Mutant of DowncastFloat: the narrowing goes on to float16. *)
DowncastFloatToHalf(col) ==
    IF \A r \in DOMAIN col.vals : Float32Close(col.vals[r])
      THEN [col EXCEPT !.dtype = "float16",
                       !.vals = [r \in DOMAIN col.vals |-> AsFloat32(col.vals[r])]]
    ELSE col

(* pd.to_numeric(series, downcast='float'): the candidates start at        *)
(* float32; float64 becomes float32 when every value stays close; a        *)
(* float32 column is kept; nothing is narrowed below float32.              *)
DowncastFloat(col) ==
    IF ItemSize(col.dtype) < 4 THEN col
    ELSE IF col.dtype = "float32" /\ Len(col.vals) > 0 THEN col
    ELSE IF \A r \in DOMAIN col.vals : Float32Close(col.vals[r])
      THEN [col EXCEPT !.dtype = "float32",
                       !.vals = [r \in DOMAIN col.vals |-> AsFloat32(col.vals[r])]]
    ELSE col

(* lines 71-72 *)
NumCheckDf ==
    /\ fn = "optimize_numeric" /\ pc = "check_df"
    /\ IF ~heap[arg].isdf
          THEN Raise("df must be a pandas DataFrame")
          ELSE /\ pc' = "copy"
               /\ UNCHANGED <<err, ret, fn, wpc, wout>>
    /\ UNCHANGED <<heap, df_before, call, arg, loc, thr, verbose, cols, i,
                   converted_columns, stdout, trace>>

(* Mutant of NumCopy: out = df.select_dtypes(...).copy(), which keeps the  *)
(* numeric columns only.                                                   *)
NumCopyNumericOnly ==
    /\ fn = "optimize_numeric" /\ pc = "copy"
    /\ LET kept == SelectDtypes(heap[arg], NumericDtypes)
       IN  /\ heap' = Append(heap, [heap[arg] EXCEPT !.cols =
                                     [p \in DOMAIN kept |-> heap[arg].cols[kept[p]]]])
           /\ cols' = [p \in DOMAIN kept |-> p]
    /\ loc' = Len(heap) + 1
    /\ trace' = Append(trace, Event("copy", fn, arg, 0))
    /\ i' = 1
    /\ pc' = "loop"
    /\ UNCHANGED <<df_before, call, arg, thr, verbose, converted_columns, stdout,
                   err, ret, fn, wpc, wout>>

(* lines 75-80: out = df.copy(deep=True); the numeric columns are selected. *)
NumCopy ==
    /\ fn = "optimize_numeric" /\ pc = "copy"
    /\ heap' = Append(heap, heap[arg])
    /\ loc' = Len(heap) + 1
    /\ trace' = Append(trace, Event("copy", fn, arg, 0))
    /\ cols' = SelectDtypes(heap[arg], NumericDtypes)
    /\ i' = 1
    /\ pc' = "loop"
    /\ UNCHANGED <<df_before, call, arg, thr, verbose, converted_columns, stdout,
                   err, ret, fn, wpc, wout>>

(* lines 82-92: one iteration of the loop over the numeric columns, or its *)
(* end.                                                                    *)
NumLoop ==
    /\ fn = "optimize_numeric" /\ pc = "loop"
    /\ IF i > Len(cols)
          THEN /\ pc' = "report"
               /\ UNCHANGED <<heap, i, trace>>
          ELSE LET col == cols[i]
                   series == heap[loc].cols[col]
               IN  /\ trace' = Append(trace, Event("examine", fn, col, 0))
                   /\ i' = i + 1
                   /\ pc' = "loop"
                   /\ heap' = [heap EXCEPT ![loc] =
                         IF Kind(series.dtype) \in {"i", "u"}
                           THEN SetColumn(heap[loc], col, DowncastInteger(series))
                         ELSE IF Kind(series.dtype) = "f"
                           THEN SetColumn(heap[loc], col, DowncastFloat(series))
                         ELSE heap[loc]]
    /\ UNCHANGED <<df_before, call, arg, loc, thr, verbose, cols,
                   converted_columns, stdout, err, ret, fn, wpc, wout>>

(* lines 95-101: the memory report when verbose, and the return of out. *)
NumReport ==
    /\ fn = "optimize_numeric" /\ pc = "report"
    /\ stdout' = IF verbose THEN Append(stdout, Line("memory", <<>>, 0)) ELSE stdout
    /\ Return("df", loc, trace)
    /\ UNCHANGED <<heap, df_before, call, arg, loc, thr, verbose, cols, i,
                   converted_columns>>

OptimizeNumeric == NumCheckDf \/ NumCopy \/ NumLoop \/ NumReport

----------------------------------------------------------------------------
(* optimize_special(df) *)

UpperCase == <<"A","B","C","D","E","F","G","H","I","J","K","L","M",
               "N","O","P","Q","R","S","T","U","V","W","X","Y","Z">>
LowerCase == <<"a","b","c","d","e","f","g","h","i","j","k","l","m",
               "n","o","p","q","r","s","t","u","v","w","x","y","z">>

(* str.lower(), character by character *)
LowerChar(ch) ==
    IF \E j \in DOMAIN UpperCase : UpperCase[j] = ch
      THEN LowerCase[CHOOSE j \in DOMAIN UpperCase : UpperCase[j] = ch]
      ELSE ch

Lower(name) == [p \in DOMAIN name |-> LowerChar(name[p])]

Whitespace == {" ", "\t", "\n"}

(* str.strip(): without the whitespace at both ends *)
RECURSIVE Strip(_)
Strip(name) ==
    IF name = <<>> THEN name
    ELSE IF Head(name) \in Whitespace THEN Strip(Tail(name))
    ELSE IF name[Len(name)] \in Whitespace THEN Strip(SubSeq(name, 1, Len(name) - 1))
    ELSE name

(* line 106: id_regex = (?:^|_)(id|uuid|key)(?:$|_), case-insensitive.     *)
IdTokens == {<<"i","d">>, <<"u","u","i","d">>, <<"k","e","y">>}

(* Mutant of IdRegexSearch: the token may stand anywhere in the name. *)
IdSubstringSearch(name) ==
    \E tok \in IdTokens : \E p \in DOMAIN name :
        /\ p + Len(tok) - 1 <= Len(name)
        /\ Lower(SubSeq(name, p, p + Len(tok) - 1)) = tok

(* id_regex.search(col_name): a token that starts at the start of the name *)
(* or after an underscore and ends at the end of the name ($ also matches  *)
(* before a final newline) or before an underscore.                        *)
IdRegexSearch(name) ==
    \E tok \in IdTokens : \E p \in DOMAIN name :
        LET q == p + Len(tok) - 1
        IN  /\ q <= Len(name)
            /\ Lower(SubSeq(name, p, q)) = tok
            /\ (p = 1 \/ name[p - 1] = "_")
            /\ \/ q = Len(name)
               \/ (q = Len(name) - 1 /\ name[Len(name)] = "\n")
               \/ name[q + 1] = "_"

(* line 109 *)
coord_names ==
    {<<"l","a","t">>, <<"l","a","t","i","t","u","d","e">>, <<"l","o","n">>,
     <<"l","o","n","g">>, <<"l","o","n","g","i","t","u","d","e">>}

(* lines 112-113, in tenths *)
HIGH_CARDINALITY_THRESHOLD == 5
UNIQUE_ID_THRESHOLD == 9

(* Mutant of Classify: the coordinate name is looked at first. *)
ClassifyNameFirst(series, n_rows) ==
    IF Lower(Strip(series.name)) \in coord_names THEN "coordinate"
    ELSE IF AllNull(series) THEN ""
    ELSE IF series.dtype = "category" THEN "categorical"
    ELSE LET nunique == NUnique(series)
         IN  IF IdRegexSearch(series.name) /\ nunique * 10 >= UNIQUE_ID_THRESHOLD * n_rows
               THEN "unique_id"
             ELSE IF /\ series.dtype = "object"
                     /\ nunique * 10 > HIGH_CARDINALITY_THRESHOLD * n_rows
                     /\ ~IdRegexSearch(series.name)
               THEN "text"
             ELSE ""

(* Mutant of Classify: unique_ratio >= HIGH_CARDINALITY_THRESHOLD. *)
ClassifyTextAtHalf(series, n_rows) ==
    IF AllNull(series) THEN ""
    ELSE IF series.dtype = "category" THEN "categorical"
    ELSE IF Lower(Strip(series.name)) \in coord_names THEN "coordinate"
    ELSE LET nunique == NUnique(series)
         IN  IF IdRegexSearch(series.name) /\ nunique * 10 >= UNIQUE_ID_THRESHOLD * n_rows
               THEN "unique_id"
             ELSE IF /\ series.dtype = "object"
                     /\ nunique * 10 >= HIGH_CARDINALITY_THRESHOLD * n_rows
                     /\ ~IdRegexSearch(series.name)
               THEN "text"
             ELSE ""

(* Mutant of Classify: check 4 without the test on the name. *)
ClassifyTextIgnoresName(series, n_rows) ==
    IF AllNull(series) THEN ""
    ELSE IF series.dtype = "category" THEN "categorical"
    ELSE IF Lower(Strip(series.name)) \in coord_names THEN "coordinate"
    ELSE LET nunique == NUnique(series)
         IN  IF IdRegexSearch(series.name) /\ nunique * 10 >= UNIQUE_ID_THRESHOLD * n_rows
               THEN "unique_id"
             ELSE IF /\ series.dtype = "object"
                     /\ nunique * 10 > HIGH_CARDINALITY_THRESHOLD * n_rows
               THEN "text"
             ELSE ""

(* lines 119-148: the report line of one column, "" for none. *)
Classify(series, n_rows) ==
    IF AllNull(series) THEN ""
    ELSE IF series.dtype = "category" THEN "categorical"
    ELSE IF Lower(Strip(series.name)) \in coord_names THEN "coordinate"
    ELSE LET nunique == NUnique(series)
         IN  IF IdRegexSearch(series.name) /\ nunique * 10 >= UNIQUE_ID_THRESHOLD * n_rows
               THEN "unique_id"
             ELSE IF /\ series.dtype = "object"
                     /\ nunique * 10 > HIGH_CARDINALITY_THRESHOLD * n_rows
                     /\ ~IdRegexSearch(series.name)
               THEN "text"
             ELSE ""

(* Mutant of SpCheckDf: the header is printed before the input is checked. *)
SpCheckDfAfterHeader ==
    /\ fn = "optimize_special" /\ pc = "check_df"
    /\ stdout' = Append(stdout, Line("header", <<>>, 0))
    /\ IF ~heap[arg].isdf
          THEN Raise("df must be a pandas DataFrame")
          ELSE /\ pc' = "header"
               /\ UNCHANGED <<err, ret, fn, wpc, wout>>
    /\ UNCHANGED <<heap, df_before, call, arg, loc, thr, verbose, cols, i,
                   converted_columns, trace>>

(* lines 95-96 *)
SpCheckDf ==
    /\ fn = "optimize_special" /\ pc = "check_df"
    /\ IF ~heap[arg].isdf
          THEN Raise("df must be a pandas DataFrame")
          ELSE /\ pc' = "header"
               /\ UNCHANGED <<err, ret, fn, wpc, wout>>
    /\ UNCHANGED <<heap, df_before, call, arg, loc, thr, verbose, cols, i,
                   converted_columns, stdout, trace>>

(* Mutant of SpHeader: the column names are normalised in place           *)
(* (df.columns = [c.strip().lower() ...]) before the columns are read.     *)
SpHeaderRenames ==
    /\ fn = "optimize_special" /\ pc = "header"
    /\ heap' = [heap EXCEPT ![arg] =
                  [@ EXCEPT !.cols = [c \in DOMAIN @ |->
                      [@[c] EXCEPT !.name = Lower(Strip(@))]]]]
    /\ IF heap[arg].nrows = 0
          THEN /\ stdout' = stdout \o <<Line("header", <<>>, 0), Line("empty", <<>>, 0)>>
               /\ Return("None", 0, trace)
               /\ UNCHANGED <<cols, i>>
          ELSE /\ stdout' = Append(stdout, Line("header", <<>>, 0))
               /\ trace' = trace
               /\ cols' = [c \in DOMAIN heap[arg].cols |-> c]
               /\ i' = 1
               /\ pc' = "loop"
               /\ UNCHANGED <<err, ret, fn, wpc, wout>>
    /\ UNCHANGED <<df_before, call, arg, loc, thr, verbose, converted_columns>>

(* Mutant of SpHeader: the zero-row test is missing. *)
SpHeaderNoEmptyTest ==
    /\ fn = "optimize_special" /\ pc = "header"
    /\ stdout' = Append(stdout, Line("header", <<>>, 0))
    /\ trace' = trace
    /\ cols' = [c \in DOMAIN heap[arg].cols |-> c]
    /\ i' = 1
    /\ pc' = "loop"
    /\ UNCHANGED <<err, ret, fn, wpc, wout>>
    /\ UNCHANGED <<heap, df_before, call, arg, loc, thr, verbose,
                   converted_columns>>

(* lines 98-103: the header; a zero-row dataset gets the empty notice and  *)
(* the function returns None. Otherwise the loop is over df.columns.       *)
SpHeader ==
    /\ fn = "optimize_special" /\ pc = "header"
    /\ IF heap[arg].nrows = 0
          THEN /\ stdout' = stdout \o <<Line("header", <<>>, 0), Line("empty", <<>>, 0)>>
               /\ Return("None", 0, trace)
               /\ UNCHANGED <<cols, i>>
          ELSE /\ stdout' = Append(stdout, Line("header", <<>>, 0))
               /\ trace' = trace
               /\ cols' = [c \in DOMAIN heap[arg].cols |-> c]
               /\ i' = 1
               /\ pc' = "loop"
               /\ UNCHANGED <<err, ret, fn, wpc, wout>>
    /\ UNCHANGED <<heap, df_before, call, arg, loc, thr, verbose,
                   converted_columns>>

(* lines 115-150: one iteration of the loop over the columns, or the       *)
(* return of None after the last one.                                      *)
SpLoop ==
    /\ fn = "optimize_special" /\ pc = "loop"
    /\ IF i > Len(cols)
          THEN /\ Return("None", 0, trace)
               /\ UNCHANGED <<stdout, i>>
          ELSE LET col == cols[i]
                   series == heap[arg].cols[col]
                   tag == Classify(series, heap[arg].nrows)
               IN  /\ trace' = Append(trace, Event("examine", fn, col, 0))
                   /\ stdout' = IF tag = "" THEN stdout
                                 ELSE Append(stdout, Line(tag, series.name, 0))
                   /\ i' = i + 1
                   /\ pc' = "loop"
                   /\ UNCHANGED <<err, ret, fn, wpc, wout>>
    /\ UNCHANGED <<heap, df_before, call, arg, loc, thr, verbose, cols,
                   converted_columns>>

OptimizeSpecial == SpCheckDf \/ SpHeader \/ SpLoop

----------------------------------------------------------------------------
(* optimize_dataframe(df) *)

(* optimize_dataframe calls helper f on the object at address a. *)
Invoke(f, a, t, v, w) ==
    /\ wpc' = w
    /\ fn' = f
    /\ pc' = "check_df"
    /\ arg' = a
    /\ thr' = t
    /\ verbose' = v
    /\ trace' = Append(trace, Event("call", f, a, CallArg(f, t, v)))
    /\ UNCHANGED <<heap, df_before, call, wout, loc, cols, i, converted_columns,
                   stdout, ret, err>>

(* lines 69-70 *)
DfCheckDf ==
    /\ fn = "none" /\ wpc = "check_df"
    /\ IF ~heap[1].isdf
          THEN Raise("df must be a pandas DataFrame")
          ELSE /\ wpc' = "copy"
               /\ UNCHANGED <<err, ret, fn, pc, wout>>
    /\ UNCHANGED <<heap, df_before, call, arg, loc, thr, verbose, cols, i,
                   converted_columns, stdout, trace>>

(* line 73: out = df.copy(deep=True) *)
DfCopy ==
    /\ fn = "none" /\ wpc = "copy"
    /\ heap' = Append(heap, heap[1])
    /\ wout' = Len(heap) + 1
    /\ trace' = Append(trace, Event("copy", "optimize_dataframe", 1, 0))
    /\ wpc' = "numeric"
    /\ UNCHANGED <<df_before, call, fn, pc, arg, loc, thr, verbose, cols, i,
                   converted_columns, stdout, ret, err>>

(* line 76: out = optimize_numeric(out), verbose left at its default True *)
DfNumeric ==
    /\ fn = "none" /\ wpc = "numeric"
    /\ Invoke("optimize_numeric", wout, Threshold("num", 0), TRUE, "in_numeric")

(* line 77: out = optimize_categorical(out, max_unique_ratio=0.5) *)
DfCategorical ==
    /\ fn = "none" /\ wpc = "categorical"
    /\ Invoke("optimize_categorical", wout, Threshold("num", 50), verbose, "in_categorical")

(* Mutant of DfSpecial: the report is made on the caller's df, not on out. *)
DfSpecialOnInput ==
    /\ fn = "none" /\ wpc = "special"
    /\ Invoke("optimize_special", 1, thr, verbose, "in_special")

(* line 80: optimize_special(out) *)
DfSpecial ==
    /\ fn = "none" /\ wpc = "special"
    /\ Invoke("optimize_special", wout, thr, verbose, "in_special")

(* line 82: return out *)
DfReturn ==
    /\ fn = "none" /\ wpc = "return"
    /\ ret' = [kind |-> "df", id |-> wout]
    /\ pc' = "done"
    /\ wpc' = "none"
    /\ trace' = Append(trace, Event("return", "optimize_dataframe", wout, 0))
    /\ UNCHANGED <<heap, df_before, call, wout, fn, arg, loc, thr, verbose, cols, i,
                   converted_columns, stdout, err>>

OptimizeDataframe ==
    DfCheckDf \/ DfCopy \/ DfNumeric \/ DfCategorical \/ DfSpecial \/ DfReturn

----------------------------------------------------------------------------
(* The state before any call, and the calls a user makes. *)

Init ==
    /\ heap = <<>>
    /\ df_before = NotADataFrame
    /\ call = [op |-> "none", t |-> Threshold("num", 0), verbose |-> FALSE,
               n |-> 0, first |-> NotADataFrame]
    /\ wpc = "none"
    /\ wout = 0
    /\ fn = "none"
    /\ pc = "idle"
    /\ arg = 0
    /\ loc = 0
    /\ thr = Threshold("num", 0)
    /\ verbose = FALSE
    /\ cols = <<>>
    /\ i = 0
    /\ converted_columns = 0
    /\ stdout = <<>>
    /\ ret = NoReturn
    /\ err = ""
    /\ trace = <<>>

(* The user calls f on d: the argument object is heap[1], and the user     *)
(* keeps a snapshot of it to compare with afterwards. A helper starts at   *)
(* its first check; optimize_dataframe starts at its own.                  *)
Start(f, d, t, v) ==
    /\ heap' = <<d>>
    /\ df_before' = d
    /\ call' = [op |-> f, t |-> t, verbose |-> v, n |-> 1, first |-> d]
    /\ fn' = IF f = "optimize_dataframe" THEN "none" ELSE f
    /\ pc' = IF f = "optimize_dataframe" THEN "wrapper" ELSE "check_df"
    /\ wpc' = IF f = "optimize_dataframe" THEN "check_df" ELSE "none"
    /\ arg' = 1
    /\ thr' = t
    /\ verbose' = v
    /\ trace' = <<Event("call", f, 1, CallArg(f, t, v))>>
    /\ UNCHANGED <<wout, loc, cols, i, converted_columns, stdout, ret, err>>

(* Datasets with n rows and the given column bodies, named by position. *)
Named(n, bodies) ==
    DataFrame(n, [p \in DOMAIN bodies |->
                    Column(ColNames[p], bodies[p].dtype, bodies[p].vals)])

(* The dataset d with its columns named, by position, from names. *)
Rename(d, names) ==
    [d EXCEPT !.cols = [p \in DOMAIN d.cols |-> [d.cols[p] EXCEPT !.name = names[p]]]]

Body(dtype, vals) == [dtype |-> dtype, vals |-> vals]

(* The columns of the datasets handed to optimize_categorical: text        *)
(* columns over a string and the missing marker, an integer column and a   *)
(* column that is categorical already.                                     *)
CatBodies(n) ==
    {Body("object", vs) : vs \in SeqsOfLen({Missing, StrCell(1)}, n)}
    \cup {Body("int64", [r \in 1..n |-> IntCell(r)]),
          Body("category", [r \in 1..n |-> StrCell(1)])}

(* max_unique_ratio arguments: 0, 0.49, 0.5, 1, -0.5, 2, NaN and "30%". *)
Thresholds ==
    {Threshold("num", v) : v \in {0, 49, 50, 100, -50, 200}}
    \cup {Threshold("nan", 0), Threshold("str", 0)}

(* optimize_categorical is called on a dataset of up to MaxRows rows and   *)
(* MaxCols such columns, or on something that is not a DataFrame.          *)
CallCategoricalOnText ==
    /\ pc = "idle"
    /\ \/ \E n \in 0..MaxRows, k \in 0..MaxCols :
            \E bs \in SeqsOfLen(CatBodies(n), k), t \in Thresholds :
                Start("optimize_categorical", Named(n, bs), t, FALSE)
       \/ \E t \in Thresholds :
            Start("optimize_categorical", NotADataFrame, t, FALSE)

NextCat == CallCategoricalOnText \/ OptimizeCategorical

SpecCat == Init /\ [][NextCat]_vars

(* The columns of the datasets of mixed types: text, integers that fit 8   *)
(* and 16 bits, floats with and without a NaN, categorical, boolean.       *)
MixedBodies(n) ==
    {Body("object", vs) : vs \in SeqsOfLen({Missing, StrCell(1)}, n)}
    \cup {Body("int64", [r \in 1..n |-> IntCell(r)]),
          Body("int64", [r \in 1..n |-> IntCell(0 - 300 * r)]),
          Body("float64", [r \in 1..n |-> FloatCell(999 + r)]),
          Body("float64", [r \in 1..n |-> CASE r = 1 -> NaNCell
                                              [] r = 2 -> InfCell
                                              [] OTHER -> FloatCell(1200)]),
          Body("category", [r \in 1..n |-> StrCell(1)]),
          Body("bool", [r \in 1..n |-> BoolCell(r % 2)])}

(* Each operation is called on a dataset of up to MaxRows rows and         *)
(* MaxMixedCols such columns, or on something that is not a DataFrame.     *)
CallNumeric ==
    /\ pc = "idle"
    /\ \/ \E n \in 0..MaxRows, k \in 0..MaxMixedCols :
            \E bs \in SeqsOfLen(MixedBodies(n), k), v \in BOOLEAN :
                Start("optimize_numeric", Named(n, bs), Threshold("num", 0), v)
       \/ \E v \in BOOLEAN :
            Start("optimize_numeric", NotADataFrame, Threshold("num", 0), v)

CallCategorical ==
    /\ pc = "idle"
    /\ \/ \E n \in 0..MaxRows, k \in 0..MaxMixedCols :
            \E bs \in SeqsOfLen(MixedBodies(n), k), t \in Thresholds :
                Start("optimize_categorical", Named(n, bs), t, FALSE)
       \/ \E t \in Thresholds :
            Start("optimize_categorical", NotADataFrame, t, FALSE)

CallSpecial ==
    /\ pc = "idle"
    /\ \/ \E n \in 0..MaxRows, k \in 0..MaxMixedCols :
            \E bs \in SeqsOfLen(MixedBodies(n), k), names \in NameLists :
                Start("optimize_special", Rename(Named(n, bs), names),
                      Threshold("num", 0), FALSE)
       \/ Start("optimize_special", NotADataFrame, Threshold("num", 0), FALSE)

CallDataframe ==
    /\ pc = "idle"
    /\ \/ \E n \in 0..MaxRows, k \in 0..MaxMixedCols :
            \E bs \in SeqsOfLen(MixedBodies(n), k), names \in NameLists :
                Start("optimize_dataframe", Rename(Named(n, bs), names),
                      Threshold("num", 0), FALSE)
       \/ Start("optimize_dataframe", NotADataFrame, Threshold("num", 0), FALSE)

Next ==
    \/ CallNumeric \/ CallCategorical \/ CallSpecial \/ CallDataframe
    \/ OptimizeNumeric \/ OptimizeCategorical \/ OptimizeSpecial \/ OptimizeDataframe

Spec == Init /\ [][Next]_vars

(* The datasets of the wrapper's end-to-end example: four rows, a text     *)
(* column "region" and a float64 column "price" with values 9.99 or 12.0,  *)
(* in either column order. The text columns are all the four-row columns   *)
(* over three strings and the missing marker, up to renaming the strings   *)
(* (the first string met is string 1, the next new one string 2, ...).     *)
FirstUse(vs) ==
    \A r \in DOMAIN vs :
        vs[r].k = "str" =>
            \A s \in 1..(vs[r].v - 1) : \E q \in 1..(r - 1) : vs[q] = StrCell(s)

ExampleText ==
    {vs \in SeqsOfLen({Missing, StrCell(1), StrCell(2), StrCell(3)}, 4) : FirstUse(vs)}

ExamplePrices == SeqsOfLen({FloatCell(999), FloatCell(1200)}, 4)

Region == <<"r","e","g","i","o","n">>
Price == <<"p","r","i","c","e">>

ExampleDatasets ==
    UNION {{DataFrame(4, <<Column(Region, "object", ts), Column(Price, "float64", ps)>>),
            DataFrame(4, <<Column(Price, "float64", ps), Column(Region, "object", ts)>>)}
           : ts \in ExampleText, ps \in ExamplePrices}

CallDataframeOnExample ==
    /\ pc = "idle"
    /\ \E d \in ExampleDatasets :
          Start("optimize_dataframe", d, Threshold("num", 0), FALSE)

NextPipe ==
    \/ CallDataframeOnExample
    \/ OptimizeNumeric \/ OptimizeCategorical \/ OptimizeSpecial \/ OptimizeDataframe

SpecPipe == Init /\ [][NextPipe]_vars

(* The columns of the datasets handed to optimize_numeric alone. The rows  *)
(* of a column repeat a pattern of values.                                 *)
Pattern(xs, n) == [r \in 1..n |-> xs[((r - 1) % Len(xs)) + 1]]

(* Integer columns at the edges of the 8-, 16- and 32-bit ranges, stored   *)
(* as int64; integer columns of the other starting dtypes; unsigned        *)
(* columns.                                                                *)
IntBodies(n) ==
    {Body("int64", Pattern(xs, n)) :
        xs \in {<<IntCell(127), IntCell(-128)>>, <<IntCell(128)>>, <<IntCell(-129)>>,
                <<IntCell(32767), IntCell(-32768)>>, <<IntCell(32768)>>,
                <<IntCell(-32769)>>,
                <<WideInt(32767, 65535), WideInt(-32768, 0)>>,
                <<WideInt(32768, 0)>>, <<WideInt(-32769, 65535)>>,
                <<IntCell(255), IntCell(0), IntCell(100)>>}}
    \cup {Body("int32", Pattern(<<IntCell(100)>>, n)),
          Body("int16", Pattern(<<IntCell(1), IntCell(2)>>, n)),
          Body("int8", Pattern(<<IntCell(5)>>, n)),
          Body("uint8", Pattern(<<IntCell(255)>>, n)),
          Body("uint64", Pattern(<<IntCell(255), IntCell(0), IntCell(100)>>, n)),
          Body("uint64", Pattern(<<IntCell(100)>>, n)),
          Body("uint64", Pattern(<<WideInt(32768, 0)>>, n))}

(* Float columns: 9.99; NaN, inf, -inf and 12.0; 20000.03, which float32   *)
(* misses by more than the tolerance; 1e300; and columns that are float32  *)
(* or float16 already.                                                     *)
FloatBodies(n) ==
    {Body("float64", Pattern(<<FloatCell(999)>>, n)),
     Body("float64", Pattern(<<NaNCell, InfCell, NegInfCell, FloatCell(1200)>>, n)),
     Body("float64", Pattern(<<FloatCell(2000003)>>, n)),
     Body("float64", Pattern(<<HugeCell>>, n)),
     Body("float32", Pattern(<<FloatCell(150)>>, n)),
     Body("float16", Pattern(<<FloatCell(150)>>, n))}

(* Columns that are not numeric: text, boolean, datetime, categorical. *)
OtherBodies(n) ==
    {Body("object", Pattern(<<StrCell(1), Missing>>, n)),
     Body("bool", Pattern(<<BoolCell(1), BoolCell(0)>>, n)),
     Body("datetime64", [r \in 1..n |-> TimeCell(r)]),
     Body("category", Pattern(<<StrCell(1), StrCell(2)>>, n))}

NumBodies(n) == IntBodies(n) \cup FloatBodies(n) \cup OtherBodies(n)

(* optimize_numeric is called on a dataset of up to MaxRows rows and       *)
(* MaxNumCols such columns.                                                *)
CallNumericOnNumbers ==
    /\ pc = "idle"
    /\ \E n \in 0..MaxRows, k \in 0..MaxNumCols :
          \E bs \in SeqsOfLen(NumBodies(n), k), v \in BOOLEAN :
              Start("optimize_numeric", Named(n, bs), Threshold("num", 0), v)

NextNum == CallNumericOnNumbers \/ OptimizeNumeric

SpecNum == Init /\ [][NextNum]_vars

(* The ten-row datasets handed to optimize_special: ten rows make the     *)
(* ratios 0.4, 0.5, 0.6, 0.8, 0.9 and 1 exact.                             *)
SpRows == 10

(* A column of SpRows rows with d distinct values: 1, 2, ..., d, d, ... *)
Distinct(dtype, d) ==
    Body(dtype, [r \in 1..SpRows |->
                   LET x == IF r < d THEN r ELSE d
                   IN  IF dtype = "int64" THEN IntCell(x) ELSE StrCell(x)])

(* Text columns of ratio 0.5 and 0.8, a text column of ratio 0.6 whose     *)
(* five missing cells count as its sixth distinct value, an all-missing    *)
(* text column, an integer column of ratio 0.9 and a categorical column of *)
(* ratio 1.                                                                *)
SpBodies ==
    {Distinct("object", 5), Distinct("object", 8), Distinct("int64", 9),
     Distinct("category", 10),
     Body("object", [r \in 1..SpRows |-> IF r <= 5 THEN Missing ELSE StrCell(r)]),
     Body("object", [r \in 1..SpRows |-> Missing])}

(* Column names: one that is a coordinate name after str.strip().lower(),  *)
(* names that match id_regex (in upper case after an underscore, before a  *)
(* final newline), one that holds a token without matching, and one that   *)
(* holds none.                                                             *)
SpNames ==
    {<<" ","L","a","t"," ">>, <<"U","s","e","r","_","I","D">>,
     <<"i","d","\n">>, <<"u","s","e","r","i","d">>, <<"c","o","m","m","e","n","t">>}

(* optimize_special is called on a ten-row dataset of up to MaxSpCols such *)
(* columns under distinct names.                                           *)
CallSpecialOnTenRows ==
    /\ pc = "idle"
    /\ \E k \in 0..MaxSpCols :
          \E bs \in SeqsOfLen(SpBodies, k), names \in SeqsOfLen(SpNames, k) :
              /\ \A p, q \in 1..k : names[p] = names[q] => p = q
              /\ Start("optimize_special", Rename(Named(SpRows, bs), names),
                       Threshold("num", 0), FALSE)

NextSp == CallSpecialOnTenRows \/ OptimizeSpecial

SpecSp == Init /\ [][NextSp]_vars

----------------------------------------------------------------------------
(* A transformer applied to its own result: once a call of                 *)
(* optimize_numeric, optimize_categorical or optimize_dataframe has        *)
(* returned a dataset, the user calls the same function on that dataset    *)
(* with the same arguments. The returned object becomes the argument       *)
(* (heap[1]), the snapshot is taken of it, and the output starts empty.    *)
CallAgain ==
    /\ pc = "done" /\ err = "" /\ ret.kind = "df"
    /\ call.n = 1
    /\ call.op \in {"optimize_numeric", "optimize_categorical", "optimize_dataframe"}
    /\ heap' = <<heap[ret.id]>>
    /\ df_before' = heap[ret.id]
    /\ call' = [call EXCEPT !.n = 2]
    /\ fn' = IF call.op = "optimize_dataframe" THEN "none" ELSE call.op
    /\ pc' = IF call.op = "optimize_dataframe" THEN "wrapper" ELSE "check_df"
    /\ wpc' = IF call.op = "optimize_dataframe" THEN "check_df" ELSE "none"
    /\ arg' = 1
    /\ thr' = call.t
    /\ verbose' = call.verbose
    /\ trace' = <<Event("call", call.op, 1, CallArg(call.op, call.t, call.verbose))>>
    /\ wout' = 0
    /\ loc' = 0
    /\ cols' = <<>>
    /\ i' = 0
    /\ converted_columns' = 0
    /\ stdout' = <<>>
    /\ ret' = NoReturn
    /\ err' = ""

NextTwice ==
    \/ CallNumericOnNumbers \/ CallCategoricalOnText \/ CallDataframe
    \/ CallAgain
    \/ OptimizeNumeric \/ OptimizeCategorical \/ OptimizeSpecial \/ OptimizeDataframe

SpecTwice == Init /\ [][NextTwice]_vars

----------------------------------------------------------------------------
(* Vocabulary of the properties. These definitions restate the terms of    *)
(* the specification (glossary, section 3) and do not use the operators    *)
(* that model the code.                                                    *)

Returned == heap[ret.id]

ReturnedDataset == pc = "done" /\ err = "" /\ ret.kind = "df"

IsMissing(c) == c.k = "none" \/ c.k = "nan"

Present(col) == {r \in DOMAIN col.vals : ~IsMissing(col.vals[r])}

EntirelyMissing(col) == Present(col) = {}

(* Cardinality ratio <= t for a threshold of t hundredths: distinct values, *)
(* missing counted as one more, over the row count.                         *)
DistinctValues(col) ==
    Cardinality({col.vals[r] : r \in Present(col)})
    + (IF Present(col) # DOMAIN col.vals THEN 1 ELSE 0)

RatioLE(col, n, t) == DistinctValues(col) * 100 <= t * n

TextColumns(d) == {c \in DOMAIN d.cols : d.cols[c].dtype = "object"}

IsCategorical(d, c) == d.cols[c].dtype = "category"

ValidThreshold(t) == t.kind = "num" /\ t.v >= 0 /\ t.v <= 100

(* A finished call of optimize_categorical on a dataset with at least one  *)
(* row and a valid threshold.                                              *)
CatConverted ==
    /\ call.op = "optimize_categorical"
    /\ ReturnedDataset
    /\ df_before.isdf /\ df_before.nrows >= 1
    /\ ValidThreshold(call.t)

(* Text column c, or a text column before it, is entirely missing. *)
Halted(d, c) == \E b \in TextColumns(d) : b <= c /\ EntirelyMissing(d.cols[b])

(* The columns the loops looked at, in the order they did. *)
IsExamine(e) == e.ev = "examine"

Examined == SelectSeq(trace, IsExamine)

(* Integer and floating-point column types and their widths in bits. *)
SignedTypes == {"int8", "int16", "int32", "int64"}
UnsignedTypes == {"uint8", "uint16", "uint32", "uint64"}
IntegerTypes == SignedTypes \cup UnsignedTypes
FloatTypes == {"float16", "float32", "float64"}

Bits(dtype) ==
    CASE dtype \in {"int8", "uint8"} -> 8
      [] dtype \in {"int16", "uint16", "float16"} -> 16
      [] dtype \in {"int32", "uint32", "float32"} -> 32
      [] OTHER -> 64

IntegerColumns(d) == {c \in DOMAIN d.cols : d.cols[c].dtype \in IntegerTypes}
FloatColumns(d) == {c \in DOMAIN d.cols : d.cols[c].dtype \in FloatTypes}

(* a <= b for integer values hi * 65536 + lo, 0 <= lo < 65536. *)
IntLE(a, b) == a.w < b.w \/ (a.w = b.w /\ a.v <= b.v)

(* The least and greatest value of the signed type of the given width. *)
SignedMin(bits) ==
    CASE bits = 8 -> [k |-> "int", v |-> 65536 - 128, w |-> -1]
      [] bits = 16 -> [k |-> "int", v |-> 32768, w |-> -1]
      [] OTHER -> [k |-> "int", v |-> 0, w |-> -32768]

SignedMax(bits) ==
    CASE bits = 8 -> [k |-> "int", v |-> 127, w |-> 0]
      [] bits = 16 -> [k |-> "int", v |-> 32767, w |-> 0]
      [] OTHER -> [k |-> "int", v |-> 65535, w |-> 32767]

(* Every value of the column lies in the signed range of the width. *)
Covers(bits, col) ==
    bits = 64 \/ \A r \in DOMAIN col.vals :
                    IntLE(SignedMin(bits), col.vals[r]) /\ IntLE(col.vals[r], SignedMax(bits))

(* The narrowest of 8, 16, 32, 64 bits whose signed range covers the column. *)
NarrowestWidth(col) == CHOOSE b \in {8, 16, 32, 64} :
    Covers(b, col) /\ \A a \in {8, 16, 32, 64} : a < b => ~Covers(a, col)

(* A finished call of optimize_numeric on a dataset with at least one row. *)
NumNarrowed ==
    /\ call.op = "optimize_numeric"
    /\ ReturnedDataset
    /\ df_before.isdf /\ df_before.nrows >= 1

----------------------------------------------------------------------------
----------------------------------------------------------------------------
(* C2. optimize_categorical examines the text columns in column order and  *)
(* stops at the first entirely missing one: that column and the text       *)
(* columns after it keep their type and values whatever their ratio, the   *)
(* text columns before it are converted exactly when ratio <= threshold,   *)
(* and no column after it is examined.                                     *)
C2_StopsAtFirstAllMissing ==
    CatConverted =>
        /\ \A c \in TextColumns(df_before) :
              IF Halted(df_before, c)
                THEN Returned.cols[c] = df_before.cols[c]
                ELSE IsCategorical(Returned, c)
                       <=> RatioLE(df_before.cols[c], df_before.nrows, call.t.v)
        /\ \A j \in 1..(Len(Examined) - 1) : Examined[j].x < Examined[j + 1].x
        /\ {Examined[j].x : j \in DOMAIN Examined}
              = {c \in TextColumns(df_before) :
                    \A b \in TextColumns(df_before) :
                        b < c => ~EntirelyMissing(df_before.cols[b])}

(* A converted text column, then an entirely missing one, then one whose   *)
(* ratio is within the threshold and which was left as text.               *)
C2_Witness ==
    /\ CatConverted
    /\ \E a, b, c \in TextColumns(df_before) :
          /\ a < b /\ b < c
          /\ IsCategorical(Returned, a)
          /\ EntirelyMissing(df_before.cols[b])
          /\ ~EntirelyMissing(df_before.cols[c])
          /\ RatioLE(df_before.cols[c], df_before.nrows, call.t.v)
          /\ ~IsCategorical(Returned, c)

(* C3. optimize_categorical with threshold 1 converts every text column    *)
(* that is not entirely missing, wherever it stands. As stated.            *)
C3_Original ==
    (CatConverted /\ call.t.v = 100) =>
        \A c \in TextColumns(df_before) :
            ~EntirelyMissing(df_before.cols[c]) => IsCategorical(Returned, c)

(* C3 as amended: with threshold 1, every text column that is not entirely *)
(* missing and has no entirely missing text column before it is            *)
(* categorical in the result.                                              *)
C3_ThresholdOneConverts ==
    (CatConverted /\ call.t.v = 100) =>
        \A c \in TextColumns(df_before) :
            ~Halted(df_before, c) => IsCategorical(Returned, c)

(* Threshold 1: a text column of ratio 1 that is not the first column was  *)
(* converted.                                                              *)
C3_Witness ==
    /\ CatConverted /\ call.t.v = 100
    /\ \E c \in TextColumns(df_before) :
          /\ c > 1
          /\ DistinctValues(df_before.cols[c]) = df_before.nrows
          /\ IsCategorical(Returned, c)

(* C4. optimize_categorical with threshold 0 converts nothing: with at     *)
(* least one row the returned dataset equals the input, column types and   *)
(* values, and no conversion-count line is printed.                        *)
C4_ThresholdZeroConvertsNothing ==
    (CatConverted /\ call.t.v = 0) =>
        /\ Returned = df_before
        /\ stdout = <<>>

(* Threshold 0 on a dataset with a text column that holds a value. *)
C4_Witness ==
    /\ CatConverted /\ call.t.v = 0
    /\ \E c \in TextColumns(df_before) : ~EntirelyMissing(df_before.cols[c])
    /\ Len(Examined) >= 1

(* C5. optimize_categorical, given a DataFrame: a threshold that is not a  *)
(* number or is NaN raises 'max_unique_ratio must be a number', a number   *)
(* below 0 or above 1 raises 'max_unique_ratio must be between 0 and 1     *)
(* (inclusive)!'; with such a threshold no copy is made, no column is      *)
(* examined, nothing is printed and nothing is returned, at any point of   *)
(* the call; thresholds 0 and 1 raise nothing.                             *)
C5_ThresholdValidation ==
    (call.op = "optimize_categorical" /\ df_before.isdf) =>
        /\ ~ValidThreshold(call.t) =>
              /\ Len(heap) = 1 /\ heap[1] = df_before
              /\ Examined = <<>>
              /\ stdout = <<>>
              /\ ret = NoReturn
              /\ converted_columns = 0
        /\ (pc = "done" /\ call.t.kind \in {"str", "nan"}) =>
              err = "max_unique_ratio must be a number"
        /\ (pc = "done" /\ call.t.kind = "num" /\ (call.t.v < 0 \/ call.t.v > 100)) =>
              err = "max_unique_ratio must be between 0 and 1 (inclusive)!"
        /\ (pc = "done" /\ call.t.kind = "num" /\ call.t.v \in {0, 100}) =>
              err = "" /\ ret.kind = "df"

(* A call with threshold NaN on a dataset with rows and a text column      *)
(* ended with the error.                                                   *)
C5_Witness ==
    /\ call.op = "optimize_categorical" /\ pc = "done"
    /\ df_before.isdf /\ df_before.nrows >= 1 /\ TextColumns(df_before) # {}
    /\ call.t.kind = "nan"
    /\ err = "max_unique_ratio must be a number"

----------------------------------------------------------------------------
(* C6. Each of the four operations rejects an input that is not a          *)
(* DataFrame with 'df must be a pandas DataFrame' as its first step: at no *)
(* point of such a call is there a copy, a call of a helper, an examined   *)
(* column, a printed line or a returned value, and the call ends with the  *)
(* error.                                                                  *)
Operations ==
    {"optimize_numeric", "optimize_categorical", "optimize_special", "optimize_dataframe"}

C6_RejectsNonTabular ==
    (call.op \in Operations /\ ~df_before.isdf) =>
        /\ heap = <<df_before>>
        /\ trace = <<Event("call", call.op, 1, CallArg(call.op, call.t, call.verbose))>>
        /\ stdout = <<>>
        /\ ret = NoReturn
        /\ pc # "done" => (err = "" /\ "check_df" \in {pc, wpc})
        /\ pc = "done" => err = "df must be a pandas DataFrame"

(* optimize_special, called with something that is not a DataFrame, has    *)
(* ended with the error.                                                   *)
C6_Witness ==
    /\ call.op = "optimize_special" /\ ~df_before.isdf
    /\ pc = "done" /\ err = "df must be a pandas DataFrame"

(* C7. optimize_dataframe on a DataFrame takes these steps of its own, in  *)
(* this order and no other: one copy of the input, one call of optimize_numeric on the copy   *)
(* with verbose on, one call of optimize_categorical on what               *)
(* optimize_numeric returned with threshold 0.5, one call of               *)
(* optimize_special on what optimize_categorical returned; it returns what *)
(* optimize_categorical returned, and the caller's dataset is as before.   *)
IsStep(e) ==
    \/ e.ev \in {"call", "return"}
    \/ e.ev = "copy" /\ e.who = "optimize_dataframe"

Steps == SelectSeq(trace, IsStep)

C7_PipelineSequence ==
    (call.op = "optimize_dataframe" /\ df_before.isdf /\ pc = "done") =>
        /\ err = ""
        /\ Len(Steps) = 9
        /\ Steps[1] = Event("call", "optimize_dataframe", 1, 0)
        /\ Steps[2] = Event("copy", "optimize_dataframe", 1, 0)
        /\ Steps[3] = Event("call", "optimize_numeric", 2, 1)
        /\ Steps[4].ev = "return" /\ Steps[4].who = "optimize_numeric"
        /\ Steps[5] = Event("call", "optimize_categorical", Steps[4].x, 50)
        /\ Steps[6].ev = "return" /\ Steps[6].who = "optimize_categorical"
        /\ Steps[7] = Event("call", "optimize_special", Steps[6].x, 0)
        /\ Steps[8] = Event("return", "optimize_special", 0, 0)
        /\ Steps[9] = Event("return", "optimize_dataframe", Steps[6].x, 0)
        /\ ret = [kind |-> "df", id |-> Steps[6].x]
        /\ heap[1] = df_before

(* optimize_dataframe has returned a dataset in which a column was         *)
(* narrowed and another converted.                                         *)
C7_Witness ==
    /\ call.op = "optimize_dataframe" /\ ReturnedDataset
    /\ \E a, b \in DOMAIN df_before.cols :
          /\ df_before.cols[a].dtype = "int64" /\ Returned.cols[a].dtype = "int8"
          /\ df_before.cols[b].dtype = "object" /\ IsCategorical(Returned, b)

(* C8. The end-to-end example: a four-row dataset with one text column and *)
(* one float64 column with values in [9.99, 12.0]. *)
PriceColumns(d) ==
    {c \in DOMAIN d.cols :
        /\ d.cols[c].dtype = "float64"
        /\ \A r \in DOMAIN d.cols[c].vals :
              /\ d.cols[c].vals[r].k = "float"
              /\ d.cols[c].vals[r].v >= 999 /\ d.cols[c].vals[r].v <= 1200}

Example(distinct) ==
    /\ call.op = "optimize_dataframe" /\ pc = "done"
    /\ df_before.isdf /\ df_before.nrows = 4 /\ Len(df_before.cols) = 2
    /\ \E c \in TextColumns(df_before) : DistinctValues(df_before.cols[c]) = distinct
    /\ PriceColumns(df_before) # {}

ExampleOptimized ==
    /\ ReturnedDataset
    /\ \A c \in TextColumns(df_before) : IsCategorical(Returned, c)
    /\ \A c \in PriceColumns(df_before) : Returned.cols[c].dtype = "float32"
    /\ heap[1] = df_before

(* C8 as stated: with 3 distinct values in the text column, the text       *)
(* column of the result is categorical and the float column is 32-bit.     *)
C8_Original == Example(3) => ExampleOptimized

(* C8 as amended: with 2 distinct values in the text column (ratio 0.5),   *)
(* the text column of the result is categorical, the float column is       *)
(* 32-bit and the original dataset is unchanged.                           *)
C8_EndToEnd == Example(2) => ExampleOptimized

(* The example run ended with two distinct strings and no missing value in *)
(* the text column, which is categorical in the result.                    *)
C8_Witness ==
    /\ Example(2) /\ ExampleOptimized
    /\ \E c \in TextColumns(df_before) : ~\E r \in 1..4 : IsMissing(df_before.cols[c].vals[r])

(* C9. optimize_numeric, optimize_categorical and optimize_dataframe never *)
(* change the caller's dataset: at every point of a call the object the    *)
(* caller passed has the column names, order, types and values it had      *)
(* before the call.                                                        *)
Transformers == {"optimize_numeric", "optimize_categorical", "optimize_dataframe"}

C9_InputNotMutated ==
    call.op \in Transformers => heap[1] = df_before

(* optimize_categorical returned a dataset with a converted column. *)
C9_Witness ==
    /\ call.op = "optimize_categorical" /\ ReturnedDataset
    /\ \E c \in TextColumns(df_before) : IsCategorical(Returned, c)
    /\ heap[1] = df_before

(* C10. optimize_special never changes the caller's dataset and returns    *)
(* None: at every point of a call the only dataset object is the caller's, *)
(* equal to what it was before the call, and a call on a DataFrame ends    *)
(* without an error and with the value None.                               *)
C10_SpecialReadOnly ==
    call.op = "optimize_special" =>
        /\ heap = <<df_before>>
        /\ (pc = "done" /\ df_before.isdf) => (err = "" /\ ret = [kind |-> "None", id |-> 0])

(* optimize_special ended on a dataset with rows where it printed a report *)
(* line for one column and none for another, whose names are not in        *)
(* normal form.                                                            *)
C10_Witness ==
    /\ call.op = "optimize_special" /\ pc = "done" /\ df_before.isdf
    /\ df_before.nrows >= 1
    /\ Len(df_before.cols) >= 2
    /\ Len(stdout) = 2
    /\ \E c \in DOMAIN df_before.cols :
          /\ Lower(Strip(df_before.cols[c].name)) # df_before.cols[c].name
          /\ stdout[2].name = df_before.cols[c].name

----------------------------------------------------------------------------
(* Vocabulary of the report of optimize_special. *)

(* A finished call of optimize_special on a dataset with at least one row. *)
SpReported ==
    /\ call.op = "optimize_special"
    /\ pc = "done" /\ err = ""
    /\ df_before.isdf /\ df_before.nrows >= 1

(* The report holds a line of the given kind for column c. *)
Reported(c, tag) ==
    \E l \in DOMAIN stdout : stdout[l] = Line(tag, df_before.cols[c].name, 0)

(* The per-column lines of the report: all lines after the header. *)
ColumnLines == SubSeq(stdout, 2, Len(stdout))

(* Ratio comparisons in tenths: distinct values, missing counted as one,   *)
(* over the row count.                                                     *)
RatioGE(col, n, tenths) == DistinctValues(col) * 10 >= tenths * n
RatioGT(col, n, tenths) == DistinctValues(col) * 10 > tenths * n

CoordinateNames ==
    {<<"l","a","t">>, <<"l","a","t","i","t","u","d","e">>, <<"l","o","n">>,
     <<"l","o","n","g">>, <<"l","o","n","g","i","t","u","d","e">>}

(* The trimmed, lower-cased name is a coordinate name. *)
IsCoordinateName(name) == Lower(Strip(name)) \in CoordinateNames

(* The name holds id, uuid or key, in any case, as a whole segment between *)
(* underscores or the ends of the name.                                    *)
HasIdSegment(name) ==
    \E p, q \in DOMAIN name :
        /\ p <= q
        /\ Lower(SubSeq(name, p, q)) \in {<<"i","d">>, <<"u","u","i","d">>, <<"k","e","y">>}
        /\ (p = 1 \/ name[p - 1] = "_")
        /\ (q = Len(name) \/ name[q + 1] = "_")

(* The name without one final newline. *)
DropFinalNewline(name) ==
    IF name # <<>> /\ name[Len(name)] = "\n" THEN SubSeq(name, 1, Len(name) - 1) ELSE name

(* The line the precedence rules give a column: rule 1 to rule 6. *)
ExpectedLine(col, n) ==
    IF EntirelyMissing(col) THEN ""
    ELSE IF col.dtype = "category" THEN "categorical"
    ELSE IF IsCoordinateName(col.name) THEN "coordinate"
    ELSE IF IdRegexSearch(col.name) /\ RatioGE(col, n, 9) THEN "unique_id"
    ELSE IF col.dtype = "object" /\ RatioGT(col, n, 5) /\ ~IdRegexSearch(col.name) THEN "text"
    ELSE ""

(* The lines the rules give the columns from c on, in column order. *)
RECURSIVE ExpectedLinesFrom(_, _)
ExpectedLinesFrom(d, c) ==
    IF c > Len(d.cols) THEN <<>>
    ELSE (IF ExpectedLine(d.cols[c], d.nrows) = "" THEN <<>>
          ELSE <<Line(ExpectedLine(d.cols[c], d.nrows), d.cols[c].name, 0)>>)
         \o ExpectedLinesFrom(d, c + 1)

----------------------------------------------------------------------------
C12_Original ==
    SpReported =>
        \A c \in DOMAIN df_before.cols :
            LET col == df_before.cols[c]
            IN  /\ Reported(c, "unique_id") =>
                      HasIdSegment(col.name) /\ RatioGE(col, df_before.nrows, 9)
                /\ (HasIdSegment(col.name) /\ RatioGE(col, df_before.nrows, 9)
                      /\ ~EntirelyMissing(col) /\ col.dtype # "category") =>
                      Reported(c, "unique_id")

(* C12 as amended: the segment may also be followed by one newline that    *)
(* ends the name.                                                          *)
C12_UniqueId ==
    SpReported =>
        \A c \in DOMAIN df_before.cols :
            LET col == df_before.cols[c]
                named == HasIdSegment(col.name) \/ HasIdSegment(DropFinalNewline(col.name))
            IN  /\ Reported(c, "unique_id") =>
                      named /\ RatioGE(col, df_before.nrows, 9)
                /\ (named /\ RatioGE(col, df_before.nrows, 9)
                      /\ ~EntirelyMissing(col) /\ col.dtype # "category") =>
                      Reported(c, "unique_id")

(* A column named User_ID with 9 distinct values in 10 rows was reported   *)
(* as a unique ID next to a column named userid of the same ratio that was *)
(* not.                                                                    *)
C12_Witness ==
    /\ SpReported
    /\ \E a, b \in DOMAIN df_before.cols :
          /\ df_before.cols[a].name = <<"U","s","e","r","_","I","D">>
          /\ DistinctValues(df_before.cols[a]) = 9 /\ df_before.nrows = 10
          /\ Reported(a, "unique_id")
          /\ df_before.cols[b].name = <<"u","s","e","r","i","d">>
          /\ DistinctValues(df_before.cols[b]) = 9
          /\ ~Reported(b, "unique_id")

(* C13. optimize_special reports a column as high-cardinality text only if *)
(* it is text-typed and its ratio is strictly above 0.5: a text column of  *)
(* ratio exactly 0.5 is not flagged, a numeric column never is, and a text *)
(* column above 0.5 that no earlier rule takes is flagged.                 *)
C13_TextStrictlyAboveHalf ==
    SpReported =>
        \A c \in DOMAIN df_before.cols :
            LET col == df_before.cols[c]
            IN  /\ Reported(c, "text") =>
                      col.dtype = "object" /\ RatioGT(col, df_before.nrows, 5)
                /\ (col.dtype = "object" /\ RatioGT(col, df_before.nrows, 5)
                      /\ ~EntirelyMissing(col) /\ ~IsCoordinateName(col.name)
                      /\ ~IdRegexSearch(col.name)) =>
                      Reported(c, "text")

(* A text column of ratio 0.6 was flagged and a text column of ratio 0.5   *)
(* under a name of the same kind was not.                                  *)
C13_Witness ==
    /\ SpReported /\ df_before.nrows = 10
    /\ \E a, b \in TextColumns(df_before) :
          /\ DistinctValues(df_before.cols[a]) = 6 /\ Reported(a, "text")
          /\ DistinctValues(df_before.cols[b]) = 5 /\ ~Reported(b, "text")
          /\ ~IdRegexSearch(df_before.cols[b].name)
          /\ ~IsCoordinateName(df_before.cols[b].name)

(* C14. optimize_special on a DataFrame prints the header before anything  *)
(* else and before it looks at a column; on a zero-row dataset it prints   *)
(* the header, then the empty notice, and returns without looking at a     *)
(* column.                                                                 *)
C14_HeaderFirst ==
    (call.op = "optimize_special" /\ df_before.isdf) =>
        /\ stdout # <<>> => stdout[1] = Line("header", <<>>, 0)
        /\ Examined # <<>> => stdout # <<>>
        /\ pc = "done" => stdout # <<>>
        /\ \A l \in 2..Len(stdout) : stdout[l].tag # "header"
        /\ (pc = "done" /\ df_before.nrows = 0) =>
              /\ stdout = <<Line("header", <<>>, 0), Line("empty", <<>>, 0)>>
              /\ Examined = <<>>
        /\ df_before.nrows >= 1 => \A l \in DOMAIN stdout : stdout[l].tag # "empty"

(* A zero-row dataset with a categorical column named like a coordinate    *)
(* got the header and the empty notice.                                    *)
C14_Witness ==
    /\ call.op = "optimize_special" /\ pc = "done" /\ df_before.isdf
    /\ df_before.nrows = 0
    /\ \E c \in DOMAIN df_before.cols :
          df_before.cols[c].dtype = "category" /\ IsCoordinateName(df_before.cols[c].name)
    /\ stdout = <<Line("header", <<>>, 0), Line("empty", <<>>, 0)>>

----------------------------------------------------------------------------
(* C15. optimize_numeric replaces every integer column, whatever its       *)
(* starting width, by the narrowest of 8, 16, 32, 64 bits whose signed     *)
(* range covers the column's values. As stated.                            *)
C15_Original ==
    NumNarrowed =>
        \A c \in IntegerColumns(df_before) :
            /\ Returned.cols[c].dtype \in IntegerTypes
            /\ Bits(Returned.cols[c].dtype) = NarrowestWidth(df_before.cols[c])

(* C15 for the starting types the code selects (int32, int64, uint64): the *)
(* result has the narrowest covering width.                                *)
C15_SelectedNarrowest ==
    NumNarrowed =>
        \A c \in IntegerColumns(df_before) :
            df_before.cols[c].dtype \in {"int32", "int64", "uint64"} =>
                /\ Returned.cols[c].dtype \in IntegerTypes
                /\ Bits(Returned.cols[c].dtype) = NarrowestWidth(df_before.cols[c])

(* An int16 column whose values fit 8 bits came back as int16. *)
C15_Witness ==
    /\ NumNarrowed
    /\ \E c \in IntegerColumns(df_before) :
          /\ df_before.cols[c].dtype = "int16"
          /\ NarrowestWidth(df_before.cols[c]) = 8
          /\ Returned.cols[c].dtype = "int16"

(* C16. optimize_numeric chooses the signedness of the narrowed type from  *)
(* the values: signed if a value is negative, unsigned otherwise; a column *)
(* with all values in 0..255 becomes uint8. As stated.                     *)
IsNegative(c) == c.w < 0

InByte(c) == c.w = 0 /\ c.v <= 255

C16_Original ==
    NumNarrowed =>
        \A c \in IntegerColumns(df_before) :
            df_before.cols[c].dtype \in {"int32", "int64", "uint64"} =>
                LET before == df_before.cols[c]
                    after == Returned.cols[c]
                IN  /\ (\E r \in DOMAIN before.vals : IsNegative(before.vals[r]))
                          <=> after.dtype \in SignedTypes
                    /\ (\A r \in DOMAIN before.vals : InByte(before.vals[r]))
                          => after.dtype = "uint8"

(* What the code does instead: the narrowed type is always signed unless   *)
(* the column stays uint64.                                                *)
C16_AlwaysSigned ==
    NumNarrowed =>
        \A c \in IntegerColumns(df_before) :
            df_before.cols[c].dtype \in {"int32", "int64", "uint64"} =>
                Returned.cols[c].dtype \in SignedTypes \cup {"uint64"}

(* An int64 column with values 255 and 0 came back as int16. *)
C16_Witness ==
    /\ NumNarrowed
    /\ \E c \in IntegerColumns(df_before) :
          /\ df_before.cols[c].dtype = "int64"
          /\ \A r \in DOMAIN df_before.cols[c].vals : InByte(df_before.cols[c].vals[r])
          /\ \E r \in DOMAIN df_before.cols[c].vals : df_before.cols[c].vals[r].v = 255
          /\ Returned.cols[c].dtype = "int16"

(* C17. optimize_numeric never changes a numeric value: the returned       *)
(* dataset has the row count, the column names and the column order of     *)
(* the input, and every integer column of the result, cast back to the     *)
(* column's original type, equals the original column row by row.          *)
C17_ValuesPreserved ==
    (call.op = "optimize_numeric" /\ ReturnedDataset) =>
        /\ Returned.nrows = df_before.nrows
        /\ Len(Returned.cols) = Len(df_before.cols)
        /\ \A c \in DOMAIN df_before.cols :
              /\ Returned.cols[c].name = df_before.cols[c].name
              /\ Len(Returned.cols[c].vals) = df_before.nrows
        /\ \A c \in IntegerColumns(df_before) :
              Astype(Returned.cols[c], df_before.cols[c].dtype) = df_before.cols[c]

(* An int64 column with a negative and a positive value, second of two     *)
(* columns, came back narrower.                                            *)
C17_Witness ==
    /\ NumNarrowed
    /\ \E c \in IntegerColumns(df_before) :
          /\ c > 1
          /\ df_before.cols[c].dtype = "int64"
          /\ Bits(Returned.cols[c].dtype) < 64
          /\ \E r, q \in DOMAIN df_before.cols[c].vals :
                /\ IsNegative(df_before.cols[c].vals[r])
                /\ ~IsNegative(df_before.cols[c].vals[q])

(* C18. optimize_numeric passes every column that is not numeric through   *)
(* unchanged: text, boolean, datetime and categorical columns have the     *)
(* type and the values of the input, and a dataset without numeric columns *)
(* is returned equal to the input.                                         *)
NonNumericTypes == {"object", "bool", "datetime64", "category"}

NonNumericColumns(d) == {c \in DOMAIN d.cols : d.cols[c].dtype \in NonNumericTypes}

C18_NonNumericUnchanged ==
    (call.op = "optimize_numeric" /\ ReturnedDataset) =>
        /\ Len(Returned.cols) = Len(df_before.cols)
        /\ \A c \in NonNumericColumns(df_before) : Returned.cols[c] = df_before.cols[c]
        /\ NonNumericColumns(df_before) = DOMAIN df_before.cols => Returned = df_before

(* A datetime column came back as it was next to an integer column that    *)
(* was narrowed.                                                           *)
C18_Witness ==
    /\ NumNarrowed
    /\ \E c, n \in DOMAIN df_before.cols :
          /\ df_before.cols[c].dtype = "datetime64"
          /\ Returned.cols[c] = df_before.cols[c]
          /\ df_before.cols[n].dtype = "int64"
          /\ Returned.cols[n].dtype = "int8"

(* C19. optimize_numeric narrows float columns only from 64 to 32 bits: a  *)
(* float column stays a float column, is never narrowed to 16 bits, and    *)
(* its missing markers and infinities stay at their rows. As stated: every *)
(* float column of the result is 32-bit or 64-bit.                         *)
IsInfinite(c) == c.k = "inf" \/ c.k = "ninf"

SpecialsKept(before, after) ==
    /\ Len(after.vals) = Len(before.vals)
    /\ \A r \in DOMAIN before.vals :
          /\ IsMissing(after.vals[r]) <=> IsMissing(before.vals[r])
          /\ IsInfinite(before.vals[r]) => after.vals[r] = before.vals[r]
          /\ IsInfinite(after.vals[r]) => IsInfinite(before.vals[r])

C19_Original ==
    (call.op = "optimize_numeric" /\ ReturnedDataset) =>
        \A c \in FloatColumns(df_before) :
            /\ Returned.cols[c].dtype \in {"float32", "float64"}
            /\ SpecialsKept(df_before.cols[c], Returned.cols[c])

(* C19 as amended: a float column of the result is 32-bit or 64-bit unless *)
(* it was 16-bit in the input, and then it is left 16-bit; a column is     *)
(* never narrower in the result than float32 and its input width allow.    *)
C19_FloatNarrowing ==
    (call.op = "optimize_numeric" /\ ReturnedDataset) =>
        \A c \in FloatColumns(df_before) :
            /\ Returned.cols[c].dtype \in FloatTypes
            /\ IF df_before.cols[c].dtype = "float16"
                  THEN Returned.cols[c].dtype = "float16"
                  ELSE Returned.cols[c].dtype \in {"float32", "float64"}
            /\ Bits(Returned.cols[c].dtype) <= Bits(df_before.cols[c].dtype)
            /\ SpecialsKept(df_before.cols[c], Returned.cols[c])

(* A float64 column with a NaN and an infinity came back as float32. *)
C19_Witness ==
    /\ NumNarrowed
    /\ \E c \in FloatColumns(df_before) :
          /\ df_before.cols[c].dtype = "float64"
          /\ Returned.cols[c].dtype = "float32"
          /\ \E r, q \in DOMAIN df_before.cols[c].vals :
                /\ IsMissing(df_before.cols[c].vals[r])
                /\ IsInfinite(df_before.cols[c].vals[q])

(* C20. On a zero-row dataset, with or without columns, each of the four   *)
(* operations (optimize_categorical with a valid threshold) ends without   *)
(* an error, and each one that returns a dataset returns one with zero     *)
(* rows and the input's column names in the input's order.                 *)
ColumnNames(d) == [c \in DOMAIN d.cols |-> d.cols[c].name]

EmptyInput ==
    /\ call.op \in Operations
    /\ df_before.isdf /\ df_before.nrows = 0
    /\ call.op = "optimize_categorical" => ValidThreshold(call.t)

C20_EmptyDataset ==
    EmptyInput =>
        /\ err = ""
        /\ pc = "done" =>
              IF call.op = "optimize_special"
                THEN ret = [kind |-> "None", id |-> 0]
                ELSE /\ ret.kind = "df"
                     /\ Returned.nrows = 0
                     /\ ColumnNames(Returned) = ColumnNames(df_before)
                     /\ \A c \in DOMAIN Returned.cols : Returned.cols[c].vals = <<>>

(* optimize_categorical returned a zero-row dataset with two columns. *)
C20_Witness ==
    /\ EmptyInput /\ pc = "done"
    /\ call.op = "optimize_categorical"
    /\ Len(df_before.cols) = 2
    /\ ret.kind = "df" /\ Len(Returned.cols) = 2

----------------------------------------------------------------------------
(* C21. optimize_categorical prints its count line exactly when it         *)
(* converted a column, once, after the loop over the columns has ended,    *)
(* and the count is the number of columns that are text in the input and   *)
(* categorical in the result; with no conversion, zero-row input           *)
(* included, it prints nothing.                                            *)
ConvertedColumns ==
    {c \in TextColumns(df_before) : IsCategorical(Returned, c)}

C21_CountLine ==
    (call.op = "optimize_categorical" /\ df_before.isdf /\ ValidThreshold(call.t)) =>
        /\ pc # "done" => stdout = <<>>
        /\ (pc = "done" /\ ConvertedColumns = {}) => stdout = <<>>
        /\ (pc = "done" /\ ConvertedColumns # {}) =>
              stdout = <<Line("converted", <<>>, Cardinality(ConvertedColumns))>>

(* A call that converted two columns of three printed the count 2. *)
C21_Witness ==
    /\ call.op = "optimize_categorical" /\ ReturnedDataset
    /\ Len(df_before.cols) = 3
    /\ Cardinality(ConvertedColumns) = 2
    /\ stdout = <<Line("converted", <<>>, 2)>>

(* C22. optimize_categorical checks its preconditions in a fixed order,    *)
(* all before the copy and the zero-row return: the dataset, then that the *)
(* threshold is a number and not NaN, then its range. An invalid dataset   *)
(* with an invalid threshold raises the dataset error, and a zero-row      *)
(* dataset with an invalid threshold raises the threshold error and is     *)
(* never copied.                                                           *)
IsNumberThreshold(t) == t.kind = "num"

C22_CheckOrder ==
    call.op = "optimize_categorical" =>
        /\ pc = "check_number" => df_before.isdf
        /\ pc = "check_range" => df_before.isdf /\ IsNumberThreshold(call.t)
        /\ Len(heap) > 1 => df_before.isdf /\ ValidThreshold(call.t)
        /\ (pc = "done" /\ ~df_before.isdf) => err = "df must be a pandas DataFrame"
        /\ (pc = "done" /\ df_before.isdf /\ ~IsNumberThreshold(call.t)) =>
              err = "max_unique_ratio must be a number"
        /\ (pc = "done" /\ df_before.isdf /\ IsNumberThreshold(call.t)
              /\ ~ValidThreshold(call.t)) =>
              err = "max_unique_ratio must be between 0 and 1 (inclusive)!"
        /\ (pc = "done" /\ df_before.isdf /\ ValidThreshold(call.t)) =>
              err = "" /\ ret.kind = "df"

(* A zero-row dataset with a column, called with threshold 2, ended with   *)
(* the range error and without a copy.                                     *)
C22_Witness ==
    /\ call.op = "optimize_categorical" /\ pc = "done"
    /\ df_before.isdf /\ df_before.nrows = 0 /\ Len(df_before.cols) >= 1
    /\ call.t = Threshold("num", 200)
    /\ err = "max_unique_ratio must be between 0 and 1 (inclusive)!"
    /\ Len(heap) = 1

(* C23. In optimize_dataframe every text column the converter turned       *)
(* categorical is reported by the reporter as categorical or ordinal data, *)
(* whatever its name: no converted column is reported as a coordinate, a   *)
(* unique ID or a text column.                                             *)
DfReturned ==
    /\ call.op = "optimize_dataframe"
    /\ ReturnedDataset
    /\ df_before.isdf

C23_ConvertedReportedCategorical ==
    DfReturned =>
        \A c \in TextColumns(df_before) :
            IsCategorical(Returned, c) =>
                /\ Reported(c, "categorical")
                /\ \A l \in DOMAIN stdout :
                      stdout[l].name = df_before.cols[c].name =>
                          stdout[l].tag = "categorical"

(* The wrapper converted a text column named like a coordinate and one     *)
(* named like an identifier, and reported both as categorical.             *)
C23_Witness ==
    /\ DfReturned
    /\ \E a, b \in TextColumns(df_before) :
          /\ IsCoordinateName(df_before.cols[a].name)
          /\ HasIdSegment(df_before.cols[b].name)
          /\ IsCategorical(Returned, a) /\ IsCategorical(Returned, b)
          /\ Reported(a, "categorical") /\ Reported(b, "categorical")

(* C24. optimize_special prints no line for a text column whose name       *)
(* matches the identifier pattern and whose cardinality ratio is above 0.5 *)
(* but below 0.9.                                                          *)
C24_IdNamedTextBelowNine ==
    SpReported =>
        \A c \in TextColumns(df_before) :
            LET col == df_before.cols[c]
            IN  ((HasIdSegment(col.name) \/ HasIdSegment(DropFinalNewline(col.name)))
                   /\ RatioGT(col, df_before.nrows, 5)
                   /\ ~RatioGE(col, df_before.nrows, 9)) =>
                    ~\E l \in DOMAIN stdout : stdout[l].name = col.name

(* A text column named User_ID with 8 distinct values in 10 rows got no    *)
(* line, next to a text column of the same ratio that was reported as      *)
(* text.                                                                   *)
C24_Witness ==
    /\ SpReported
    /\ \E a, b \in TextColumns(df_before) :
          /\ HasIdSegment(df_before.cols[a].name)
          /\ DistinctValues(df_before.cols[a]) = 8 /\ df_before.nrows = 10
          /\ DistinctValues(df_before.cols[b]) = 8
          /\ stdout = <<Line("header", <<>>, 0), Line("text", df_before.cols[b].name, 0)>>

(* C25. The transformers are idempotent on column types: a second call of  *)
(* optimize_categorical with the same threshold on the result of the first *)
(* returns the same column types and values, converts no column and prints *)
(* no count line; optimize_numeric and optimize_dataframe applied to their *)
(* own result change no column type.                                       *)
ColumnTypes(d) == [c \in DOMAIN d.cols |-> d.cols[c].dtype]

SecondCallDone == call.n = 2 /\ pc = "done"

C25_Idempotent ==
    SecondCallDone =>
        /\ ReturnedDataset
        /\ ColumnTypes(Returned) = ColumnTypes(df_before)
        /\ call.op = "optimize_categorical" =>
              /\ Returned = df_before
              /\ ~\E l \in DOMAIN stdout : stdout[l].tag = "converted"

(* optimize_dataframe narrowed an integer column and converted a text      *)
(* column, and applied to that result it changed no type.                  *)
C25_WitnessDataframe ==
    /\ SecondCallDone /\ call.op = "optimize_dataframe" /\ ReturnedDataset
    /\ \E a, b \in DOMAIN df_before.cols :
          /\ call.first.cols[a].dtype = "int64" /\ df_before.cols[a].dtype = "int16"
          /\ call.first.cols[b].dtype = "object" /\ df_before.cols[b].dtype = "category"
          /\ ColumnTypes(Returned) = ColumnTypes(df_before)

(* optimize_categorical converted a column and left another as text in its *)
(* first call, and its second call returned the same dataset and printed   *)
(* nothing.                                                                *)
C25_Witness ==
    /\ SecondCallDone /\ call.op = "optimize_categorical" /\ ReturnedDataset
    /\ \E a, b \in DOMAIN df_before.cols :
          /\ call.first.cols[a].dtype = "object" /\ df_before.cols[a].dtype = "category"
          /\ df_before.cols[b].dtype = "object"
          /\ Returned = df_before /\ stdout = <<>>

====
